---- MODULE Spec2Model ----
(***************************************************************************)
(* Model of filter_tess_no_planets.py: one run of main(output_path).      *)
(* Strings are sequences of one-character strings; a possibly missing     *)
(* value is a record [null, val].                                          *)
(***************************************************************************)
EXTENDS Integers, Sequences, FiniteSets, TLC

\* ---------------------------------------------------------------- bounds
MaxRowsA == 2
MaxRowsB == 2

\* ------------------------------------------------------- character data
\* the characters \d and \s / strip() accept, within the model's alphabet
Digit == {"0", "1", "2", "3", "4", "5", "6", "7", "8", "9"}
Space == {" ", "\t"}

S_TIC == <<"T", "I", "C">>
S_123 == <<"1", "2", "3">>
S_456 == <<"4", "5", "6">>
S_TIC_123 == <<"T", "I", "C", " ", "1", "2", "3">>
S_TIC123 == <<"T", "I", "C", "1", "2", "3">>
S_TIC_456 == <<"T", "I", "C", " ", "4", "5", "6">>

Null == [null |-> TRUE, val |-> <<>>]
Str(s) == [null |-> FALSE, val |-> s]
NullNum == [null |-> TRUE, val |-> 0]
Num(n) == [null |-> FALSE, val |-> n]

\* values the tic_id field of a Source A row can carry
ATicValues == {Null, Str(<<>>), Str(S_TIC_123), Str(S_123), Str(S_TIC_456)}
\* values the target_name / t_exptime fields of a Source B row can carry
BNameValues == {Null, Str(S_TIC_123), Str(S_TIC123), Str(S_123), Str(S_TIC_456)}
BExpValues == {NullNum, Num(20), Num(120)}
BRowValues == [target_name : BNameValues, t_exptime : BExpValues]

SeqsUpTo(S, n) == UNION {[1..k -> S] : k \in 0..n}

\* ------------------------------------------------------- pure functions
RECURSIVE StrReplaceTIC(_)
\* str.replace("TIC", ""): drop every non-overlapping occurrence, left to right
StrReplaceTIC(s) ==
    IF Len(s) = 0 THEN <<>>
    ELSE IF Len(s) >= 3 /\ SubSeq(s, 1, 3) = S_TIC
         THEN StrReplaceTIC(SubSeq(s, 4, Len(s)))
         ELSE <<Head(s)>> \o StrReplaceTIC(Tail(s))

RECURSIVE LStrip(_)
LStrip(s) == IF Len(s) > 0 /\ Head(s) \in Space THEN LStrip(Tail(s)) ELSE s

RECURSIVE RStrip(_)
RStrip(s) == IF Len(s) > 0 /\ s[Len(s)] \in Space
             THEN RStrip(SubSeq(s, 1, Len(s) - 1)) ELSE s

\* str.strip()
StrStrip(s) == RStrip(LStrip(s))

\* tic.replace("TIC", "").strip()
NormalizeTic(s) == StrStrip(StrReplaceTIC(s))

RECURSIVE SkipSpaces(_, _)
\* first index >= i of s that is not whitespace (Len(s)+1 if none)
SkipSpaces(s, i) == IF i <= Len(s) /\ s[i] \in Space THEN SkipSpaces(s, i + 1) ELSE i

RECURSIVE DigitRunEnd(_, _)
\* first index >= i of s that is not a digit (Len(s)+1 if none)
DigitRunEnd(s, i) == IF i <= Len(s) /\ s[i] \in Digit THEN DigitRunEnd(s, i + 1) ELSE i

\* does r"TIC\s*(\d+)" match when anchored at index i
MatchesAt(s, i) ==
    /\ i + 2 <= Len(s)
    /\ SubSeq(s, i, i + 2) = S_TIC
    /\ DigitRunEnd(s, SkipSpaces(s, i + 3)) > SkipSpaces(s, i + 3)

\* Series.str.extract(r"TIC\s*(\d+)", expand=False) on one value:
\* the group of the leftmost match, or missing when nothing matches
ExtractTic(s) ==
    IF \E i \in 1..Len(s) : MatchesAt(s, i)
    THEN LET i == CHOOSE k \in 1..Len(s) :
                     MatchesAt(s, k) /\ \A j \in 1..(k - 1) : ~MatchesAt(s, j)
             b == SkipSpaces(s, i + 3)
         IN  Str(SubSeq(s, b, DigitRunEnd(s, b) - 1))
    ELSE Null

\* boolean-mask row selection: the rows of t at the indices in I, in order
SelectRows(t, I) ==
    LET F[i \in 0..Len(t)] ==
            IF i = 0 THEN <<>>
            ELSE IF i \in I THEN Append(F[i - 1], t[i]) ELSE F[i - 1]
    IN  F[Len(t)]

SeqRange(s) == {s[i] : i \in 1..Len(s)}

\* obs_table.to_pandas()[list(columns)].dropna()
DropNaRaw(t) ==
    SelectRows(t, {i \in 1..Len(t) : ~t[i].target_name.null /\ ~t[i].t_exptime.null})

\* astype(float) on one present value: the column is numeric already, the
\* value is kept (a missing value stays missing, see AddColumns)
AsFloat(x) == x

\* the two derived columns, lines 87-88
AddColumns(t) ==
    [i \in 1..Len(t) |->
        [tic_id  |-> IF t[i].target_name.null THEN Null
                     ELSE ExtractTic(t[i].target_name.val),
         cadence |-> IF t[i].t_exptime.null THEN NullNum
                     ELSE Num(AsFloat(t[i].t_exptime.val))]]

\* df[["tic_id", "cadence"]].dropna()
DropNaCols(t) ==
    SelectRows(t, {i \in 1..Len(t) : ~t[i].tic_id.null /\ ~t[i].cadence.null})

DropDuplicates_None(t) == t

\* DataFrame.drop_duplicates(): keep the first occurrence of each row
DropDuplicates(t) ==
    LET F[i \in 0..Len(t)] ==
            IF i = 0 THEN <<>>
            ELSE IF t[i] \in SeqRange(F[i - 1]) THEN F[i - 1]
                 ELSE Append(F[i - 1], t[i])
    IN  F[Len(t)]

\* lines 86-89: the candidate table built from the service's table
BuildCandidates(t) ==
    LET d == DropDuplicates(DropNaCols(AddColumns(DropNaRaw(t))))
    IN  [i \in 1..Len(d) |-> [tic_id |-> d[i].tic_id.val, cadence |-> d[i].cadence.val]]

CollectTicIds_All(data) ==
    {NormalizeTic(data[i].val) : i \in 1..Len(data)}

\* lines 54-58: the loop that fills tic_ids
CollectTicIds(data) ==
    {NormalizeTic(data[i].val) :
        i \in {k \in 1..Len(data) : ~data[k].null /\ data[k].val # <<>>}}

FilterRows_IsIn(cands, tics) ==
    SelectRows(cands, {i \in 1..Len(cands) : cands[i].tic_id \in tics})

\* candidates[~candidates["tic_id"].isin(confirmed_tics)]
FilterRows(cands, tics) ==
    SelectRows(cands, {i \in 1..Len(cands) : cands[i].tic_id \notin tics})

RECURSIVE NatToStr(_)
NatToStr(n) ==
    LET d == <<"0", "1", "2", "3", "4", "5", "6", "7", "8", "9">>[(n % 10) + 1]
    IN  IF n < 10 THEN <<d>> ELSE Append(NatToStr(n \div 10), d)

\* text of a whole-valued float as to_csv writes it: 120.0
FormatFloat(x) == NatToStr(x) \o <<".", "0">>

CsvHeader == << <<"t", "i", "c", "_", "i", "d">>,
                <<"c", "a", "d", "e", "n", "c", "e">> >>

ToCsv_NoHeader(t) ==
    [i \in 1..Len(t) |-> <<t[i].tic_id, FormatFloat(t[i].cadence)>>]

ToCsv_DropLast(t) ==
    <<CsvHeader>> \o
    [i \in 1..(IF Len(t) = 0 THEN 0 ELSE Len(t) - 1) |->
        <<t[i].tic_id, FormatFloat(t[i].cadence)>>]

\* filtered.to_csv(output_path, index=False): header line, then one line
\* of fields per row
ToCsv(t) ==
    <<CsvHeader>> \o [i \in 1..Len(t) |-> <<t[i].tic_id, FormatFloat(t[i].cadence)>>]

\* ------------------------------------------------------------ state
VARIABLES pc, log, response, tic_ids, confirmed_tics, session_verify,
          obs_table, df, candidates, filtered, file, printed

vars == <<pc, log, response, tic_ids, confirmed_tics, session_verify,
          obs_table, df, candidates, filtered, file, printed>>

NoResponse == [status |-> 0, json_ok |-> FALSE, data |-> <<>>]

\* what endpoint A can answer: a 200 with a JSON list, a 200 whose body is
\* not JSON, or an error status
AResponses ==
    {[status |-> 200, json_ok |-> TRUE, data |-> d] : d \in SeqsUpTo(ATicValues, MaxRowsA)}
    \cup {[status |-> 200, json_ok |-> FALSE, data |-> <<>>],
          [status |-> 500, json_ok |-> FALSE, data |-> <<>>]}

BTables == SeqsUpTo(BRowValues, MaxRowsB)

\* the output path before the run: absent, or left over from earlier
NoFile == [exists |-> FALSE, lines |-> <<>>]
StaleFile == [exists |-> TRUE, lines |-> << << <<"o", "l", "d">> >> >>]
InitFiles == {NoFile, StaleFile}

Event(e) == [ev |-> e, verify |-> FALSE, outcome |-> "", rows |-> 0]
Request(e, v, o, n) == [ev |-> e, verify |-> v, outcome |-> o, rows |-> n]

ResponseKind(r) ==
    IF r.status >= 400 THEN "http_error" ELSE IF r.json_ok THEN "ok" ELSE "bad_json"

MainEntry_B == "B_setup"

\* main calls fetch_confirmed_tic_ids first
MainEntry == "A_request1"

OnSSLError_NoRetry(p) == "error"

\* the except clauses: an SSLError of the first call enters the fallback,
\* one raised inside the fallback propagates
OnSSLError(p) ==
    IF p = "A_request1" THEN "A_request2"
    ELSE IF p = "B_request1" THEN "B_request2"
    ELSE "error"

OnOtherError_Retry(p) ==
    IF p = "A_request1" THEN "A_request2"
    ELSE IF p = "B_request1" THEN "B_request2"
    ELSE "error"

\* any exception that is not an SSLError is caught nowhere
OnOtherError(p) == "error"

A_Verify_Off(attempt) == FALSE

\* verify= of the two requests.get calls: the certifi bundle, then False
A_Verify(attempt) == attempt = 1

\* Observations._session.verify = certifi.where()
B_SetupVerify == TRUE

\* Observations._session.verify = False
B_FallbackVerify == FALSE

Init ==
    /\ pc = MainEntry
    /\ log = <<>>
    /\ response = NoResponse
    /\ tic_ids = {}
    /\ confirmed_tics = {}
    /\ session_verify = TRUE
    /\ obs_table = <<>>
    /\ df = <<>>
    /\ candidates = <<>>
    /\ filtered = <<>>
    /\ file \in InitFiles
    /\ printed = -1

\* one requests.get of fetch_confirmed_tic_ids
A_Get(attempt) ==
    \/ \E r \in AResponses :
          /\ log' = Append(log, Request("A", A_Verify(attempt), ResponseKind(r), Len(r.data)))
          /\ response' = r
          /\ pc' = "A_parse"
    \/ /\ log' = Append(log, Request("A", A_Verify(attempt), "ssl_error", 0))
       /\ pc' = OnSSLError(pc)
       /\ UNCHANGED response
    \/ /\ log' = Append(log, Request("A", A_Verify(attempt), "other_error", 0))
       /\ pc' = OnOtherError(pc)
       /\ UNCHANGED response

A_Request1 ==
    /\ pc = "A_request1"
    /\ A_Get(1)
    /\ UNCHANGED <<tic_ids, confirmed_tics, session_verify, obs_table, df,
                   candidates, filtered, file, printed>>

A_Request2 ==
    /\ pc = "A_request2"
    /\ A_Get(2)
    /\ UNCHANGED <<tic_ids, confirmed_tics, session_verify, obs_table, df,
                   candidates, filtered, file, printed>>

\* raise_for_status, response.json() and the loop over the rows
A_Parse ==
    /\ pc = "A_parse"
    /\ IF response.status >= 400 \/ ~response.json_ok
       THEN pc' = "error" /\ UNCHANGED tic_ids
       ELSE pc' = "A_return" /\ tic_ids' = CollectTicIds(response.data)
    /\ UNCHANGED <<log, response, confirmed_tics, session_verify, obs_table, df,
                   candidates, filtered, file, printed>>

\* return tic_ids; the function's locals end with the call
A_Return ==
    /\ pc = "A_return"
    /\ confirmed_tics' = tic_ids
    /\ response' = NoResponse
    /\ tic_ids' = {}
    /\ log' = Append(log, Event("A_returned"))
    /\ pc' = "B_setup"
    /\ UNCHANGED <<session_verify, obs_table, df, candidates, filtered, file, printed>>

B_Setup ==
    /\ pc = "B_setup"
    /\ session_verify' = B_SetupVerify
    /\ pc' = "B_request1"
    /\ UNCHANGED <<log, response, tic_ids, confirmed_tics, obs_table, df,
                   candidates, filtered, file, printed>>

\* one Observations.query_criteria call made with session setting v
B_Query(v) ==
    \/ \E t \in BTables :
          /\ log' = Append(log, Request("B", v, "ok", Len(t)))
          /\ obs_table' = t
          /\ pc' = "B_parse"
    \/ /\ log' = Append(log, Request("B", v, "ssl_error", 0))
       /\ pc' = OnSSLError(pc)
       /\ UNCHANGED obs_table
    \/ /\ log' = Append(log, Request("B", v, "other_error", 0))
       /\ pc' = OnOtherError(pc)
       /\ UNCHANGED obs_table

B_Request1 ==
    /\ pc = "B_request1"
    /\ B_Query(session_verify)
    /\ UNCHANGED <<response, tic_ids, confirmed_tics, session_verify, df,
                   candidates, filtered, file, printed>>

B_Request2 ==
    /\ pc = "B_request2"
    /\ session_verify' = B_FallbackVerify
    /\ B_Query(B_FallbackVerify)
    /\ UNCHANGED <<response, tic_ids, confirmed_tics, df,
                   candidates, filtered, file, printed>>

B_Parse ==
    /\ pc = "B_parse"
    /\ df' = BuildCandidates(obs_table)
    /\ pc' = "B_return"
    /\ UNCHANGED <<log, response, tic_ids, confirmed_tics, session_verify, obs_table,
                   candidates, filtered, file, printed>>

B_Return ==
    /\ pc = "B_return"
    /\ candidates' = df
    /\ obs_table' = <<>>
    /\ df' = <<>>
    /\ log' = Append(log, Event("B_returned"))
    /\ pc' = "filter"
    /\ UNCHANGED <<response, tic_ids, confirmed_tics, session_verify, filtered, file, printed>>

Filter ==
    /\ pc = "filter"
    /\ filtered' = FilterRows(candidates, confirmed_tics)
    /\ log' = Append(log, Event("filtered"))
    /\ pc' = "write"
    /\ UNCHANGED <<response, tic_ids, confirmed_tics, session_verify, obs_table, df,
                   candidates, file, printed>>

Write ==
    /\ pc = "write"
    /\ file' = [exists |-> TRUE, lines |-> ToCsv(filtered)]
    /\ log' = Append(log, Event("written"))
    /\ pc' = "print"
    /\ UNCHANGED <<response, tic_ids, confirmed_tics, session_verify, obs_table, df,
                   candidates, filtered, printed>>

PrintCount ==
    /\ pc = "print"
    /\ printed' = Len(filtered)
    /\ log' = Append(log, Event("printed"))
    /\ pc' = "done"
    /\ UNCHANGED <<response, tic_ids, confirmed_tics, session_verify, obs_table, df,
                   candidates, filtered, file>>

Next ==
    \/ A_Request1
    \/ A_Request2
    \/ A_Parse
    \/ A_Return
    \/ B_Setup
    \/ B_Request1
    \/ B_Request2
    \/ B_Parse
    \/ B_Return
    \/ Filter
    \/ Write
    \/ PrintCount

Spec == Init /\ [][Next]_vars

\* ------------------------------------------------------------ properties
IsRequest(l) == l.ev \in {"A", "B"}
Occurrences(e) == {i \in 1..Len(log) : log[i].ev = e}
RequestsTo(e) == Occurrences(e)
Happened(e) == \E i \in 1..Len(log) : log[i].ev = e
HappenedBefore(e, i) == \E j \in 1..(i - 1) : log[j].ev = e
Written == pc \in {"print", "done"}
DataLines == {file.lines[i] : i \in 2..Len(file.lines)}
AllDigits(s) == Len(s) > 0 /\ \A i \in 1..Len(s) : s[i] \in Digit
NoRepeats(t) == \A i, j \in 1..Len(t) : t[i] = t[j] => i = j

\* C1: once the output is written, no line of it carries in its tic_id
\* column an identifier of the set fetch_confirmed_tic_ids returned.
C1_NoConfirmedInOutput ==
    Written => \A l \in DataLines : l[1] \notin confirmed_tics

C1_Witness ==
    /\ pc = "done"
    /\ \E i \in 1..Len(candidates) : candidates[i].tic_id \in confirmed_tics
    /\ \E i \in 1..Len(candidates) : candidates[i].tic_id \notin confirmed_tics
    /\ DataLines # {}

\* C2: the written table is exactly the candidate rows whose identifier is
\* absent from the identifier set, unaltered, in order, under the header;
\* with set {"123"} and candidates ("123",120.0),("456",20.0) only
\* ("456",20.0) is written.
C2_ExactDifference ==
    Written =>
        /\ Len(file.lines) >= 1 /\ file.lines[1] = CsvHeader
        /\ \A id \in {S_123, S_456} : \A c \in {20, 120} :
              (\E l \in DataLines : l = <<id, FormatFloat(c)>>)
              <=> /\ \E i \in 1..Len(candidates) :
                        candidates[i] = [tic_id |-> id, cadence |-> c]
                  /\ id \notin confirmed_tics
        /\ \A l \in DataLines :
              \E id \in {S_123, S_456} : \E c \in {20, 120} : l = <<id, FormatFloat(c)>>
        /\ Len(file.lines) - 1 =
              Cardinality({i \in 1..Len(candidates) : candidates[i].tic_id \notin confirmed_tics})
        /\ (/\ confirmed_tics = {S_123}
            /\ candidates = <<[tic_id |-> S_123, cadence |-> 120],
                              [tic_id |-> S_456, cadence |-> 20]>>)
           => file.lines = <<CsvHeader, <<S_456, <<"2", "0", ".", "0">> >> >>

C2_Witness ==
    /\ pc = "done"
    /\ confirmed_tics = {S_123}
    /\ candidates = <<[tic_id |-> S_123, cadence |-> 120],
                      [tic_id |-> S_456, cadence |-> 20]>>
    /\ file.lines = <<CsvHeader, <<S_456, <<"2", "0", ".", "0">> >> >>

\* C3: both fetchers turn the raw forms "TIC 123" and "123" into the key
\* "123": fetch_confirmed_tic_ids for the tic_id field, and
\* fetch_lightcurve_targets for the target_name field.
C3_BothFormsYieldKey ==
    /\ pc = "A_return" =>
          \A i \in 1..Len(response.data) :
              (~response.data[i].null /\ response.data[i].val \in {S_TIC_123, S_123})
              => S_123 \in tic_ids
    /\ pc = "B_return" =>
          \A i \in 1..Len(obs_table) :
              (/\ ~obs_table[i].target_name.null
               /\ obs_table[i].target_name.val \in {S_TIC_123, S_123}
               /\ ~obs_table[i].t_exptime.null)
              => \E k \in 1..Len(df) :
                     df[k] = [tic_id |-> S_123, cadence |-> obs_table[i].t_exptime.val]

\* C4: no table of the run (candidates, filtered, the written lines) holds
\* the same (tic_id, cadence) pair twice, also when distinct raw names
\* extract to the same identifier with the same cadence.
C4_NoDuplicateRows ==
    /\ NoRepeats(df)
    /\ NoRepeats(candidates)
    /\ NoRepeats(filtered)
    /\ Written => NoRepeats(file.lines)

C4_Witness ==
    /\ pc = "B_return"
    /\ Len(obs_table) = 2
    /\ obs_table[1].target_name = Str(S_TIC_123)
    /\ obs_table[2].target_name = Str(S_TIC123)
    /\ obs_table[1].t_exptime = Num(120)
    /\ obs_table[2].t_exptime = Num(120)
    /\ df = <<[tic_id |-> S_123, cadence |-> 120]>>

\* C5: in each fetcher an SSL failure of the verified first request is
\* followed by one unverified retry and nothing more: at most two requests
\* per fetch, and an SSL failure of the retry ends the run in error.
C5_SingleRetry ==
    /\ \A e \in {"A", "B"} : Cardinality(RequestsTo(e)) <= 2
    /\ \A i \in 1..Len(log) :
          (IsRequest(log[i]) /\ log[i].outcome = "ssl_error") =>
              IF \A j \in 1..(i - 1) : log[j].ev # log[i].ev
              THEN \/ /\ i = Len(log)
                      /\ pc = (IF log[i].ev = "A" THEN "A_request2" ELSE "B_request2")
                   \/ /\ i < Len(log)
                      /\ log[i + 1].ev = log[i].ev
                      /\ ~log[i + 1].verify
              ELSE i = Len(log) /\ pc = "error"

C5_Witness ==
    /\ pc = "error"
    /\ Cardinality(RequestsTo("B")) = 2
    /\ \A i \in RequestsTo("B") : log[i].outcome = "ssl_error"
    /\ \E i \in RequestsTo("A") : log[i].outcome = "ssl_error"
    /\ \E i \in RequestsTo("A") : log[i].outcome = "ok" /\ ~log[i].verify

\* C6: a fetch failure other than an SSL failure of a first request is
\* not retried and ends the run in error: nothing is filtered, written or
\* reported, the output path keeps its earlier content, and after a
\* failure of fetch A no request goes to endpoint B.
C6_OtherFailuresFatal ==
    /\ \A i \in 1..Len(log) :
          (/\ IsRequest(log[i])
           /\ \/ log[i].outcome \in {"other_error", "http_error", "bad_json"}
              \/ log[i].outcome = "ssl_error" /\ HappenedBefore(log[i].ev, i))
          => /\ i = Len(log)
             /\ pc \in {"error", "A_parse"}
             /\ log[i].outcome = "other_error" => pc = "error"
    /\ pc = "error" =>
          /\ file \in InitFiles
          /\ filtered = <<>>
          /\ printed = -1
          /\ ~Happened("filtered") /\ ~Happened("written") /\ ~Happened("printed")
          /\ ~Happened("A_returned") => RequestsTo("B") = {}

C6_Witness ==
    /\ pc = "error"
    /\ Len(log) = 2
    /\ log[1].outcome = "ssl_error"
    /\ log[2] = Request("A", FALSE, "http_error", 0)
    /\ file = StaleFile

\* C7: when endpoint A answers with no rows and endpoint B with an empty
\* table, the run does not fail, the written output is the header line
\* alone, and the reported row count is 0.
C7_BothEmpty ==
    (/\ \E i \in RequestsTo("A") : log[i].outcome = "ok" /\ log[i].rows = 0
     /\ \E i \in RequestsTo("B") : log[i].outcome = "ok" /\ log[i].rows = 0)
    => /\ pc # "error"
       /\ Written => file = [exists |-> TRUE, lines |-> <<CsvHeader>>]
       /\ pc = "done" => printed = 0

C7_Witness ==
    /\ pc = "done"
    /\ \E i \in RequestsTo("A") : log[i].outcome = "ok" /\ log[i].rows = 0
    /\ \E i \in RequestsTo("B") : log[i].outcome = "ok" /\ log[i].rows = 0
    /\ file.lines = <<CsvHeader>>
    /\ printed = 0

\* C8: the run is sequential: fetch A (retry included) completes before
\* any request to endpoint B, the filter follows both fetches, the output
\* is written once and after the filter, the count is reported after the
\* write.
C8_Sequential ==
    /\ \A i \in 1..Len(log) :
          /\ log[i].ev = "B" => HappenedBefore("A_returned", i)
          /\ log[i].ev = "A" => \A j \in 1..(i - 1) : log[j].ev = "A"
          /\ log[i].ev = "filtered" =>
                HappenedBefore("A_returned", i) /\ HappenedBefore("B_returned", i)
          /\ log[i].ev = "written" => HappenedBefore("filtered", i)
          /\ log[i].ev = "printed" => HappenedBefore("written", i)
    /\ Cardinality(Occurrences("written")) <= 1
    /\ pc = "done" => Cardinality(Occurrences("written")) = 1
    /\ pc \in {"B_setup", "B_request1", "B_request2", "B_parse", "B_return"}
          => Happened("A_returned")

C8_Witness ==
    /\ pc = "done"
    /\ Cardinality(RequestsTo("A")) = 2
    /\ Cardinality(RequestsTo("B")) = 2
    /\ printed = 1

HasTicDigits(s) ==
    \E i, j \in 1..Len(s) :
        /\ i + 3 <= j
        /\ SubSeq(s, i, i + 2) = S_TIC
        /\ \A k \in (i + 3)..(j - 1) : s[k] \in Space
        /\ s[j] \in Digit

Usable(r) == ~r.target_name.null /\ ~r.t_exptime.null /\ HasTicDigits(r.target_name.val)

\* C9: Source B rows with a missing name, a missing exposure time or a
\* name without "TIC", optional whitespace and digits are dropped, Source A
\* rows with a missing or empty tic_id are skipped; every row of the
\* candidate table and of the output has an all-digit tic_id and a cadence
\* taken from a present value, and no key comes from a missing field.
C9_MissingDropped ==
    /\ pc = "B_return" =>
          /\ \A k \in 1..Len(df) :
                \E i \in 1..Len(obs_table) :
                    /\ Usable(obs_table[i])
                    /\ df[k].cadence = obs_table[i].t_exptime.val
                    /\ df[k].tic_id = ExtractTic(obs_table[i].target_name.val).val
          /\ Len(df) <= Cardinality({i \in 1..Len(obs_table) : Usable(obs_table[i])})
          /\ (\A i \in 1..Len(obs_table) : ~Usable(obs_table[i])) => df = <<>>
    /\ pc = "A_return" =>
          /\ \A k \in tic_ids :
                \E i \in 1..Len(response.data) :
                    /\ ~response.data[i].null
                    /\ response.data[i].val # <<>>
                    /\ k = NormalizeTic(response.data[i].val)
          /\ (\A i \in 1..Len(response.data) :
                  response.data[i].null \/ response.data[i].val = <<>>) => tic_ids = {}
    /\ \A t \in {df, candidates, filtered} :
          \A k \in 1..Len(t) : AllDigits(t[k].tic_id) /\ t[k].cadence \in {20, 120}
    /\ Written => \A l \in DataLines :
          AllDigits(l[1]) /\ l[2] \in {FormatFloat(20), FormatFloat(120)}

C9_Witness ==
    /\ pc = "B_return"
    /\ Len(obs_table) = 2
    /\ obs_table[1] = [target_name |-> Str(S_TIC_456), t_exptime |-> NullNum]
    /\ obs_table[2] = [target_name |-> Null, t_exptime |-> Num(20)]
    /\ df = <<>>
    /\ confirmed_tics = {S_123}

\* C10: an unverified request is only ever the reaction to an SSL failure
\* of the verified request just before it in the same fetch; the first
\* request of each fetch is verified, also when fetch A fell back.
C10_VerifyOffOnlyAfterSSL ==
    \A i \in 1..Len(log) :
        IsRequest(log[i]) =>
            /\ (~HappenedBefore(log[i].ev, i)) => log[i].verify
            /\ ~log[i].verify =>
                  /\ i > 1
                  /\ log[i - 1].ev = log[i].ev
                  /\ log[i - 1].verify
                  /\ log[i - 1].outcome = "ssl_error"

C10_Witness ==
    /\ Cardinality(RequestsTo("A")) = 2
    /\ \E i \in RequestsTo("A") : ~log[i].verify
    /\ \E i \in RequestsTo("B") : log[i].verify /\ ~HappenedBefore("B", i)
    /\ session_verify

====
